---- MODULE Spec2Model ----
(***************************************************************************)
(* Model of the Albert API client (src/python/albert_api.py).              *)
(*                                                                         *)
(* Representation                                                          *)
(*   - a Python str that the code slices (base URL, endpoint) is a         *)
(*     sequence of tokens, "/" being a token of its own;                   *)
(*   - any other Python scalar (int, str, None, list literal) is a string  *)
(*     token, None being the token "None";                                 *)
(*   - a Python dict is a set of <<key, value>> pairs with unique keys;    *)
(*   - the httpx session is modelled by the interface the client uses:     *)
(*     session.headers, session.request(...), response.raise_for_status(), *)
(*     response.status_code, response.json().                              *)
(***************************************************************************)
EXTENDS Integers, Sequences, FiniteSets, TLC

VARIABLES
    env,        \* the process environment: ALBERT_API_BASE_URL, ALBERT_API_KEY
    client,     \* the AlbertAPI instance: its attributes and its session
    lastCall,   \* the operation called last and the arguments it was given
    sent,       \* the requests that call handed to session.request, in order
    outcome,    \* what that call returned or raised
    handles,    \* number of file handles the calls made so far have left open
    scope,      \* the `with` statement the instance is used in, if any
    server      \* the collections the remote service holds, and the call before

vars == <<env, client, lastCall, sent, outcome, handles, scope, server>>

-----------------------------------------------------------------------------
(* Python values *)

\* None where a str sliced by the code is expected (a token sequence).
NoneS == <<"None">>
\* None where a scalar token is expected.
None == "None"

\* Python truthiness of an Optional[str]: None and "" are falsy.
TruthyS(s) == s # NoneS /\ s # <<>>

\* `a or b` on Optional[str].
OrS(a, b) == IF TruthyS(a) THEN a ELSE b

\* dict helpers: a dict is a set of <<key, value>> pairs.
EmptyDict == {}
Keys(d) == {p[1] : p \in d}
Get(d, k) == (CHOOSE p \in d : p[1] = k)[2]
\* {**d1, **d2}: the entries of d2 replace those of d1 with the same key.
Merge(d1, d2) == {p \in d1 : p[1] \notin Keys(d2)} \cup d2

-----------------------------------------------------------------------------
(* The environment of the process *)

\* Values the two environment variables may hold; NoneS: the variable is unset.
EnvBaseUrls == {NoneS, <<"https://env.example">>}
EnvApiKeys == {NoneS, <<>>, <<"env-key">>}

\* Files the multipart operations may be pointed at.
ExistingFile == <<"data", "/", "report.pdf">>
MissingFile == <<"data", "/", "gone.pdf">>
Paths == {ExistingFile, MissingFile}

\* What the file system holds at a path.
PathKind(p) ==
    CASE p = ExistingFile -> "file"
      [] OTHER -> "missing"

\* Path(file_path).exists()
Exists(p) == PathKind(p) # "missing"

\* Path(file_path).name: the last component of the path.
Name(p) == p[Len(p)]

-----------------------------------------------------------------------------
(* What a call returns or raises *)

\* No call has been made yet.
NoOutcome ==
    [kind |-> "none", exc |-> "", msg |-> "", detail |-> "",
     attrs |-> {}, value |-> {}, jsonCalls |-> 0]

\* `return value`; jsonCalls counts the calls of response.json().
Return(value, jsonCalls) ==
    [kind |-> "return", exc |-> "", msg |-> "", detail |-> "",
     attrs |-> {}, value |-> value, jsonCalls |-> jsonCalls]

\* `raise exc(f"{msg}{detail}")`: the exception types the client raises
\* (ValueError, FileNotFoundError, RuntimeError) are built from one message
\* string and hold no other attribute.
Raise(exc, msg, detail, jsonCalls) ==
    [kind |-> "raise", exc |-> exc, msg |-> msg, detail |-> detail,
     attrs |-> {}, value |-> {}, jsonCalls |-> jsonCalls]

-----------------------------------------------------------------------------
(* The transport: the session and the remote platform *)

\* Status codes the platform answers with.
Statuses == {200, 201, 204, 404}

\* Raw response bodies.
Bodies == {"{\"id\": 42, \"name\": \"demo\"}", "<html>oops</html>"}

\* What session.request does for one dispatch: it raises a connection-level
\* exception (net # "ok") or returns a response with a status and a raw body.
Responses ==
    {[net |-> n, status |-> 0, body |-> ""] : n \in {"connect", "timeout"}}
    \cup [net : {"ok"}, status : Statuses, body : Bodies]

\* response.raise_for_status() raises for a client or server error status.
IsErrorStatus(status) == status >= 400 /\ status < 600

\* str(e) of the exception raised by raise_for_status: it names the status.
StatusErrorText(resp) == ToString(resp.status)

\* str(e) of a connection-level exception.
TransportErrorText(resp) == resp.net

\* response.json(): the decoded body, or json.JSONDecodeError (ok = FALSE).
\* Decoded JSON values nested in a dict carry their Python type.
PyList(items) == [type |-> "list", items |-> items]
PyDict(items) == [type |-> "dict", items |-> items]
PyNone == [type |-> "NoneType", items |-> <<>>]

\* Raw bodies of a model listing: two models, an entry without "id", null data.
ListingBodies ==
    {"{\"data\": [{\"id\": \"model-a\"}, {\"id\": \"model-b\"}]}",
     "{\"data\": [{\"id\": \"model-a\"}, {\"name\": \"model-b\"}]}",
     "{\"data\": null}",
     "{}",
     "<html>oops</html>"}

ListingResponses ==
    {[net |-> n, status |-> 0, body |-> ""] : n \in {"connect", "timeout"}}
    \cup [net : {"ok"}, status : Statuses, body : ListingBodies]

JsonLoads(body) ==
    CASE body = "{}" -> [ok |-> TRUE, value |-> EmptyDict]
      [] body = "{\"data\": [{\"id\": \"model-a\"}, {\"id\": \"model-b\"}]}" ->
            [ok |-> TRUE,
             value |-> {<<"data", PyList(<<PyDict({<<"id", "model-a">>}),
                                          PyDict({<<"id", "model-b">>})>>)>>}]
      [] body = "{\"data\": [{\"id\": \"model-a\"}, {\"name\": \"model-b\"}]}" ->
            [ok |-> TRUE,
             value |-> {<<"data", PyList(<<PyDict({<<"id", "model-a">>}),
                                          PyDict({<<"name", "model-b">>})>>)>>}]
      [] body = "{\"id\": 42, \"name\": \"notes\"}" ->
            [ok |-> TRUE, value |-> {<<"id", "42">>, <<"name", "notes">>}]
      [] body = "{\"id\": 43, \"name\": \"demo\"}" ->
            [ok |-> TRUE, value |-> {<<"id", "43">>, <<"name", "demo">>}]
      [] body = "{\"id\": 43, \"name\": \"notes\"}" ->
            [ok |-> TRUE, value |-> {<<"id", "43">>, <<"name", "notes">>}]
      [] body = "{\"data\": null}" ->
            [ok |-> TRUE, value |-> {<<"data", PyNone>>}]
      [] body = "{\"id\": 42, \"name\": \"demo\"}" ->
            [ok |-> TRUE, value |-> {<<"id", "42">>, <<"name", "demo">>}]
      [] OTHER -> [ok |-> FALSE, value |-> EmptyDict]

\* Keyword arguments _make_request forwards to session.request: `given` names
\* the ones present.
NoKwargs ==
    [given |-> {}, params |-> {}, json |-> {}, data |-> {}, files |-> {}]
ParamsKw(params) == [NoKwargs EXCEPT !.given = {"params"}, !.params = params]
JsonKw(json) == [NoKwargs EXCEPT !.given = {"json"}, !.json = json]
FilesKw(data, files) ==
    [NoKwargs EXCEPT !.given = {"data", "files"}, !.data = data, !.files = files]

\* Content type the transport derives from the body encoding of a request.
EncodingContentType(kw) ==
    IF "files" \in kw.given THEN <<"multipart/form-data; boundary=...">>
    ELSE IF "json" \in kw.given THEN <<"application/json">>
    ELSE IF "data" \in kw.given THEN <<"application/x-www-form-urlencoded">>
    ELSE <<>>

\* Headers of the request session.request sends: the session's default
\* headers (the call passes no headers of its own), to which the transport
\* adds the encoding's content type only where none is set already.
RequestHeaders(c, kw) ==
    IF "Content-Type" \in Keys(c.headers) \/ EncodingContentType(kw) = <<>>
    THEN c.headers
    ELSE c.headers \cup {<<"Content-Type", EncodingContentType(kw)>>}

\* The request handed to the transport by
\* self.session.request(method=method, url=url, timeout=self.timeout, **kwargs).
SessionRequest(c, method, url, kw) ==
    [method |-> method, url |-> url, timeout |-> c.timeout,
     given |-> kw.given, params |-> kw.params, json |-> kw.json,
     data |-> kw.data, files |-> kw.files, headers |-> RequestHeaders(c, kw)]

-----------------------------------------------------------------------------
(* AlbertAPI.__init__ *)

DefaultTimeout == 30

\* No instance exists.
NoClient ==
    [state |-> "none", base_url |-> NoneS, api_key |-> NoneS, timeout |-> 0,
     headers |-> {}]

\* The default headers set on the new session.
SessionHeaders(api_key) ==
    {<<"Authorization", <<"Bearer ">> \o api_key>>,
     <<"Content-Type", <<"application/json">>>>}

\* Mutant of AlbertAPIInit: the credential is not validated.
AlbertAPIInitNoKeyCheck(base_url, api_key, timeout, e) ==
    LET bu == OrS(base_url, e["ALBERT_API_BASE_URL"])
        ak == OrS(api_key, e["ALBERT_API_KEY"])
    IN  IF ~TruthyS(bu)
        THEN [client |-> NoClient, sent |-> <<>>,
              outcome |-> Raise("ValueError", "Base URL is required.", "", 0)]
        ELSE [client |-> [state |-> "open", base_url |-> bu, api_key |-> ak,
                          timeout |-> timeout, headers |-> SessionHeaders(ak)],
              sent |-> <<>>, outcome |-> Return(EmptyDict, 0)]

\* Mutant of AlbertAPIInit: the environment variable is taken before the
\* argument.
AlbertAPIInitEnvFirst(base_url, api_key, timeout, e) ==
    LET bu == OrS(e["ALBERT_API_BASE_URL"], base_url)
        ak == OrS(e["ALBERT_API_KEY"], api_key)
    IN  IF ~TruthyS(bu)
        THEN [client |-> NoClient, sent |-> <<>>,
              outcome |-> Raise("ValueError", "Base URL is required.", "", 0)]
        ELSE IF ~TruthyS(ak)
        THEN [client |-> NoClient, sent |-> <<>>,
              outcome |-> Raise("ValueError", "API key is required.", "", 0)]
        ELSE [client |-> [state |-> "open", base_url |-> bu, api_key |-> ak,
                          timeout |-> timeout, headers |-> SessionHeaders(ak)],
              sent |-> <<>>, outcome |-> Return(EmptyDict, 0)]

\* __init__(base_url, api_key, timeout) under environment e: the instance it
\* leaves, the requests it dispatches (none) and what it raises.
AlbertAPIInit(base_url, api_key, timeout, e) ==
    LET bu == OrS(base_url, e["ALBERT_API_BASE_URL"])
        ak == OrS(api_key, e["ALBERT_API_KEY"])
    IN  IF ~TruthyS(bu)
        THEN [client |-> NoClient, sent |-> <<>>,
              outcome |-> Raise("ValueError", "Base URL is required.", "", 0)]
        ELSE IF ~TruthyS(ak)
        THEN [client |-> NoClient, sent |-> <<>>,
              outcome |-> Raise("ValueError", "API key is required.", "", 0)]
        ELSE [client |-> [state |-> "open", base_url |-> bu, api_key |-> ak,
                          timeout |-> timeout, headers |-> SessionHeaders(ak)],
              sent |-> <<>>, outcome |-> Return(EmptyDict, 0)]

-----------------------------------------------------------------------------
(* AlbertAPI._make_request *)

\* str.rstrip('/') and str.lstrip('/')
RECURSIVE Rstrip(_)
Rstrip(s) ==
    IF s # <<>> /\ s[Len(s)] = "/" THEN Rstrip(SubSeq(s, 1, Len(s) - 1)) ELSE s
RECURSIVE Lstrip(_)
Lstrip(s) ==
    IF s # <<>> /\ s[1] = "/" THEN Lstrip(Tail(s)) ELSE s

\* Mutant of BuildUrl: one slash at most is removed from each side.
BuildUrlStripOne(base_url, endpoint) ==
    (IF base_url # <<>> /\ base_url[Len(base_url)] = "/"
     THEN SubSeq(base_url, 1, Len(base_url) - 1) ELSE base_url)
    \o <<"/">>
    \o (IF endpoint # <<>> /\ endpoint[1] = "/" THEN Tail(endpoint) ELSE endpoint)

\* f"{self.base_url.rstrip('/')}/{endpoint.lstrip('/')}"
BuildUrl(base_url, endpoint) == Rstrip(base_url) \o <<"/">> \o Lstrip(endpoint)

\* Mutant of Interpret: raise_for_status() is not called.
InterpretNoStatusCheck(resp) ==
    IF resp.net # "ok"
    THEN Raise("RuntimeError", "API request failed: ", TransportErrorText(resp), 0)
    ELSE IF resp.status = 204
    THEN Return(EmptyDict, 0)
    ELSE IF JsonLoads(resp.body).ok
    THEN Return(JsonLoads(resp.body).value, 1)
    ELSE Raise("RuntimeError", "Failed to parse JSON response: ", "JSONDecodeError", 1)

\* Mutant of Interpret: json.JSONDecodeError is not caught.
InterpretNoJsonCatch(resp) ==
    IF resp.net # "ok"
    THEN Raise("RuntimeError", "API request failed: ", TransportErrorText(resp), 0)
    ELSE IF IsErrorStatus(resp.status)
    THEN Raise("RuntimeError", "API request failed: ", StatusErrorText(resp), 0)
    ELSE IF resp.status = 204
    THEN Return(EmptyDict, 0)
    ELSE IF JsonLoads(resp.body).ok
    THEN Return(JsonLoads(resp.body).value, 1)
    ELSE Raise("JSONDecodeError", "Expecting value", "", 1)

\* Mutant of Interpret: the body is decoded before the 204 test.
InterpretParseFirst(resp) ==
    IF resp.net # "ok"
    THEN Raise("RuntimeError", "API request failed: ", TransportErrorText(resp), 0)
    ELSE IF IsErrorStatus(resp.status)
    THEN Raise("RuntimeError", "API request failed: ", StatusErrorText(resp), 0)
    ELSE IF ~JsonLoads(resp.body).ok
    THEN Raise("RuntimeError", "Failed to parse JSON response: ", "JSONDecodeError", 1)
    ELSE IF resp.status = 204
    THEN Return(EmptyDict, 1)
    ELSE Return(JsonLoads(resp.body).value, 1)

\* Mutant of Interpret: an undecodable body yields the empty result.
InterpretSilentEmpty(resp) ==
    IF resp.net # "ok"
    THEN Raise("RuntimeError", "API request failed: ", TransportErrorText(resp), 0)
    ELSE IF IsErrorStatus(resp.status)
    THEN Raise("RuntimeError", "API request failed: ", StatusErrorText(resp), 0)
    ELSE IF resp.status = 204
    THEN Return(EmptyDict, 0)
    ELSE IF JsonLoads(resp.body).ok
    THEN Return(JsonLoads(resp.body).value, 1)
    ELSE Return(EmptyDict, 1)

\* What the try block does with the transport's answer to the one dispatch.
Interpret(resp) ==
    IF resp.net # "ok"
    THEN Raise("RuntimeError", "API request failed: ", TransportErrorText(resp), 0)
    ELSE IF IsErrorStatus(resp.status)
    THEN Raise("RuntimeError", "API request failed: ", StatusErrorText(resp), 0)
    ELSE IF resp.status = 204
    THEN Return(EmptyDict, 0)
    ELSE IF JsonLoads(resp.body).ok
    THEN Return(JsonLoads(resp.body).value, 1)
    ELSE Raise("RuntimeError", "Failed to parse JSON response: ", "JSONDecodeError", 1)

\* Mutant of MakeRequest: a failed attempt is sent a second time.
MakeRequestRetry(c, method, endpoint, kw, resp) ==
    LET url == BuildUrl(c.base_url, endpoint)
        req == SessionRequest(c, method, url, kw)
        one == [req |-> req, resp |-> resp]
    IN  [sent |-> IF Interpret(resp).kind = "raise" THEN <<one, one>> ELSE <<one>>,
         outcome |-> Interpret(resp)]

\* _make_request(method, endpoint, **kwargs) when the transport answers resp:
\* the exchanges it makes with the transport and its outcome.
MakeRequest(c, method, endpoint, kw, resp) ==
    LET url == BuildUrl(c.base_url, endpoint)
        req == SessionRequest(c, method, url, kw)
    IN  [sent |-> <<[req |-> req, resp |-> resp]>>, outcome |-> Interpret(resp)]

-----------------------------------------------------------------------------
(* The facade: each operation, given the transport's answer resp to the      *)
(* request it dispatches, yields the exchanges made and the call's outcome.  *)

V1(rest) == <<"/", "v1", "/">> \o rest

\* An operation that discards the result of _make_request returns None.
Discard(r) ==
    IF r.outcome.kind = "return"
    THEN [r EXCEPT !.outcome.kind = "return_none", !.outcome.value = EmptyDict]
    ELSE r

\* Left when an operation raises before it reaches _make_request.
RaisedBefore(exc, msg) == [sent |-> <<>>, outcome |-> Raise(exc, msg, "", 0)]

get_models(c, resp) == MakeRequest(c, "GET", V1(<<"models">>), NoKwargs, resp)

\* [m["id"] for m in models.get("data", [])]: iterating None raises TypeError,
\* an entry without "id" raises KeyError.
IdsOfListing(models, jsonCalls) ==
    LET data == IF "data" \in Keys(models) THEN Get(models, "data")
                ELSE PyList(<<>>)
    IN  IF data.type # "list"
        THEN Raise("TypeError", "object is not iterable: ", data.type, jsonCalls)
        ELSE IF \E i \in DOMAIN data.items : "id" \notin Keys(data.items[i].items)
        THEN Raise("KeyError", "id", "", jsonCalls)
        ELSE Return([i \in DOMAIN data.items |-> Get(data.items[i].items, "id")],
                    jsonCalls)

\* Mutant of get_models_ids: no try/except around the body.
get_models_ids_unguarded(c, resp) ==
    LET r == get_models(c, resp)
    IN  [sent |-> r.sent,
         outcome |-> IF r.outcome.kind = "raise" THEN r.outcome
                     ELSE IdsOfListing(r.outcome.value, r.outcome.jsonCalls)]

\* try: the ids of get_models()'s data; except Exception: print and return [].
get_models_ids(c, resp) ==
    LET r == get_models(c, resp)
        body == IF r.outcome.kind = "raise" THEN r.outcome
                ELSE IdsOfListing(r.outcome.value, r.outcome.jsonCalls)
    IN  [sent |-> r.sent,
         outcome |-> IF body.kind = "raise" THEN Return(<<>>, body.jsonCalls)
                     ELSE body]

get_model(c, model, resp) ==
    MakeRequest(c, "GET", V1(<<"models", "/">> \o model), NoKwargs, resp)

\* Mutant of chat_completions: the extra keyword arguments are left out.
chat_completions_without_extra(c, messages, model, kwargs, resp) ==
    LET data == {<<"messages", messages>>, <<"model", model>>}
    IN  MakeRequest(c, "POST", V1(<<"chat", "/", "completions">>), JsonKw(data), resp)

chat_completions(c, messages, model, kwargs, resp) ==
    LET data == Merge({<<"messages", messages>>, <<"model", model>>}, kwargs)
    IN  MakeRequest(c, "POST", V1(<<"chat", "/", "completions">>), JsonKw(data), resp)

agents_completions(c, messages, model, kwargs, resp) ==
    LET data == Merge({<<"messages", messages>>, <<"model", model>>}, kwargs)
    IN  MakeRequest(c, "POST", V1(<<"agents", "/", "completions">>), JsonKw(data), resp)

get_agents_tools(c, resp) ==
    MakeRequest(c, "GET", V1(<<"agents", "/", "tools">>), NoKwargs, resp)

create_embeddings(c, input_text, model, kwargs, resp) ==
    LET data == Merge({<<"input", input_text>>, <<"model", model>>}, kwargs)
    IN  MakeRequest(c, "POST", V1(<<"embeddings">>), JsonKw(data), resp)

\* `with open(file_path, "rb") as f:` around a body that does r: the handle is
\* opened, and closed when the body is left, by return or by exception.
WithOpen(r) ==
    [sent |-> r.sent, outcome |-> r.outcome, opened |-> 1, closed |-> 1]

\* The file handles an operation that did r has left open.
OpenHandles(r) == IF "opened" \in DOMAIN r THEN r.opened - r.closed ELSE 0

\* Mutant of Upload: the request is dispatched before the path is checked.
UploadDispatchFirst(c, file_path, notFound, endpoint, data, ctype, resp) ==
    LET r == MakeRequest(c, "POST", endpoint,
                         FilesKw(data, {<<"file", Name(file_path), ctype>>}), resp)
    IN  IF ~Exists(file_path)
        THEN [sent |-> r.sent, outcome |-> Raise("FileNotFoundError", notFound, "", 0)]
        ELSE WithOpen(r)

\* Mutant of Upload: the handle is closed after the request returns, and not
\* when it raises.
UploadCloseOnReturn(c, file_path, notFound, endpoint, data, ctype, resp) ==
    LET r == MakeRequest(c, "POST", endpoint,
                         FilesKw(data, {<<"file", Name(file_path), ctype>>}), resp)
    IN  IF ~Exists(file_path)
        THEN RaisedBefore("FileNotFoundError", notFound)
        ELSE [sent |-> r.sent, outcome |-> r.outcome, opened |-> 1,
              closed |-> IF r.outcome.kind = "raise" THEN 0 ELSE 1]

\* Mutant of Upload: the scalar fields travel as a JSON body beside the file.
UploadFieldsAsJson(c, file_path, notFound, endpoint, data, ctype, resp) ==
    IF ~Exists(file_path)
    THEN RaisedBefore("FileNotFoundError", notFound)
    ELSE WithOpen(MakeRequest(c, "POST", endpoint,
                     [NoKwargs EXCEPT !.given = {"json", "files"}, !.json = data,
                                      !.files = {<<"file", Name(file_path), ctype>>}],
                     resp))

\* The body shared by the four file-carrying operations: the existence check,
\* open(file_path, "rb"), the files mapping and the multipart request.
Upload(c, file_path, notFound, endpoint, data, ctype, resp) ==
    IF ~Exists(file_path)
    THEN RaisedBefore("FileNotFoundError", notFound)
    ELSE WithOpen(MakeRequest(c, "POST", endpoint,
                              FilesKw(data, {<<"file", Name(file_path), ctype>>}),
                              resp))

transcribe_audio(c, file_path, model, kwargs, resp) ==
    Upload(c, file_path, "Audio file not found: ",
           V1(<<"audio", "/", "transcriptions">>),
           Merge({<<"model", model>>}, kwargs), "audio/mpeg", resp)

parse_document(c, file_path, kwargs, resp) ==
    Upload(c, file_path, "Document file not found: ", V1(<<"parse-beta">>),
           kwargs, "application/pdf", resp)

ocr_document(c, file_path, model, kwargs, resp) ==
    Upload(c, file_path, "PDF file not found: ", V1(<<"ocr-beta">>),
           Merge({<<"model", model>>}, kwargs), "application/pdf", resp)

create_collection(c, name, description, visibility, resp) ==
    LET data == {<<"name", name>>, <<"description", description>>,
                 <<"visibility", visibility>>}
    IN  MakeRequest(c, "POST", V1(<<"collections">>), JsonKw(data), resp)

get_collections(c, offset, limit, resp) ==
    LET params == {<<"offset", offset>>, <<"limit", limit>>}
    IN  MakeRequest(c, "GET", V1(<<"collections">>), ParamsKw(params), resp)

\* Mutant of get_collection: a GET that follows a GET is marked as a retry.
get_collection_marking_retry(c, collection_id, resp) ==
    MakeRequest(c, "GET", V1(<<"collections", "/", collection_id>>),
                IF sent # <<>> /\ sent[Len(sent)].req.method = "GET"
                THEN ParamsKw({<<"retry", "1">>}) ELSE NoKwargs,
                resp)

\* Mutant of delete_collection: the collection is read, not deleted.
delete_collection_by_get(c, collection_id, resp) ==
    Discard(MakeRequest(c, "GET", V1(<<"collections", "/", collection_id>>),
                         NoKwargs, resp))

get_collection(c, collection_id, resp) ==
    MakeRequest(c, "GET", V1(<<"collections", "/", collection_id>>), NoKwargs, resp)

update_collection(c, collection_id, kwargs, resp) ==
    Discard(MakeRequest(c, "PATCH", V1(<<"collections", "/", collection_id>>),
                         JsonKw(kwargs), resp))

delete_collection(c, collection_id, resp) ==
    Discard(MakeRequest(c, "DELETE", V1(<<"collections", "/", collection_id>>),
                         NoKwargs, resp))

create_document(c, file_path, collection_id, kwargs, resp) ==
    Upload(c, file_path, "Document file not found: ", V1(<<"documents">>),
           Merge({<<"collection", collection_id>>}, kwargs), "application/pdf", resp)

get_documents(c, collection_id, limit, offset, resp) ==
    LET base == {<<"limit", limit>>, <<"offset", offset>>}
        params == IF collection_id # None
                  THEN Merge(base, {<<"collection", collection_id>>})
                  ELSE base
    IN  MakeRequest(c, "GET", V1(<<"documents">>), ParamsKw(params), resp)

get_document(c, document_id, resp) ==
    MakeRequest(c, "GET", V1(<<"documents", "/", document_id>>), NoKwargs, resp)

delete_document(c, document_id, resp) ==
    Discard(MakeRequest(c, "DELETE", V1(<<"documents", "/", document_id>>),
                         NoKwargs, resp))

get_chunks(c, document_id, limit, offset, resp) ==
    LET params == {<<"limit", limit>>, <<"offset", offset>>}
    IN  MakeRequest(c, "GET", V1(<<"chunks", "/", document_id>>),
                    ParamsKw(params), resp)

get_chunk(c, document_id, chunk_id, resp) ==
    MakeRequest(c, "GET", V1(<<"chunks", "/", document_id, "/", chunk_id>>),
                NoKwargs, resp)

search(c, prompt, collections, kwargs, resp) ==
    LET colls == IF collections \in {None, "[]"} THEN "[]" ELSE collections
        data == Merge({<<"prompt", prompt>>, <<"collections", colls>>}, kwargs)
    IN  MakeRequest(c, "POST", V1(<<"search">>), JsonKw(data), resp)

rerank(c, prompt, input_texts, model, resp) ==
    LET data == {<<"prompt", prompt>>, <<"input", input_texts>>, <<"model", model>>}
    IN  MakeRequest(c, "POST", V1(<<"rerank">>), JsonKw(data), resp)

get_usage(c, limit, page, kwargs, resp) ==
    LET params == Merge({<<"limit", limit>>, <<"page", page>>}, kwargs)
    IN  MakeRequest(c, "GET", V1(<<"usage">>), ParamsKw(params), resp)

create_token(c, name, user, expires_at, resp) ==
    LET d0 == {<<"name", name>>}
        d1 == IF user # None THEN Merge(d0, {<<"user", user>>}) ELSE d0
        data == IF expires_at # None
                THEN Merge(d1, {<<"expires_at", expires_at>>}) ELSE d1
    IN  MakeRequest(c, "POST", <<"/", "tokens">>, JsonKw(data), resp)

get_tokens(c, offset, limit, kwargs, resp) ==
    LET params == Merge({<<"offset", offset>>, <<"limit", limit>>}, kwargs)
    IN  MakeRequest(c, "GET", <<"/", "tokens">>, ParamsKw(params), resp)

get_token(c, token_id, resp) ==
    MakeRequest(c, "GET", <<"/", "tokens", "/", token_id>>, NoKwargs, resp)

delete_token(c, token_id, resp) ==
    Discard(MakeRequest(c, "DELETE", <<"/", "tokens", "/", token_id>>,
                         NoKwargs, resp))

-----------------------------------------------------------------------------
(* Arguments the callers pass *)

ArgBaseUrls == {NoneS, <<>>, <<"https://albert.example", "/">>}
ArgApiKeys == {NoneS, <<>>, <<"arg-key">>}
Timeouts == {DefaultTimeout}
Ids == {"7"}
OptionalIds == {None, "7"}
Offsets == {"20"}
Limits == {"5"}
Pages == {"2"}
Models == {"model-x"}
ModelNames == {<<"model-x">>, <<"org", "/", "name">>, <<"name", "?", "v">>}
Messages == {"[{role: user, content: hi}]"}
Names == {"demo"}
Descriptions == {None, "desc"}
Visibilities == {"private"}
Users == {None, "12"}
Expiries == {None, "1790000000"}
CollectionLists == {None, "[7]"}
\* **kwargs of the operations that take them: query options, JSON options,
\* form fields, collection fields.
QueryKwargs == {EmptyDict, {<<"order_by", "created">>}, {<<"order_by", None>>}}
JsonKwargs == {EmptyDict, {<<"max_completion_tokens", "100">>}}
NoExtra == {EmptyDict}
FormKwargs == {EmptyDict, {<<"chunk_size", "500">>}}
UpdateKwargs == {{<<"description", "updated">>}}

-----------------------------------------------------------------------------
(* State machine *)

\* No `with` statement entered: phase is "out", then "in" the block, then
\* "left"; closes counts the calls of session.close(), raised is the exception
\* that left the block and propagated the one that reached the caller.
NoScope == [phase |-> "out", closes |-> 0, raised |-> "", propagated |-> ""]

NoCall == [op |-> "", path |-> <<>>, args |-> {}, kwargs |-> {}]

\* The remote service: the name of the collection under each id it can give
\* out, None where there is none; and the call made before the last one with
\* the collections the service held then.
ServerIds == <<"42", "43">>

CollectionNames == {"demo", "notes"}

NoCollections == [id \in {ServerIds[i] : i \in DOMAIN ServerIds} |-> None]

NoBefore == [call |-> NoCall, outcome |-> NoOutcome, sent |-> <<>>,
             names |-> NoCollections]

NoServer == [names |-> NoCollections, before |-> NoBefore]

Init ==
    /\ env \in [ALBERT_API_BASE_URL : EnvBaseUrls, ALBERT_API_KEY : EnvApiKeys]
    /\ client = NoClient
    /\ lastCall = NoCall
    /\ sent = <<>>
    /\ outcome = NoOutcome
    /\ handles = 0
    /\ scope = NoScope
    /\ server = NoServer

\* AlbertAPI(base_url, api_key, timeout)
Construct ==
    /\ client.state = "none"
    /\ \E base_url \in ArgBaseUrls, api_key \in ArgApiKeys, timeout \in Timeouts :
         LET r == AlbertAPIInit(base_url, api_key, timeout, env)
         IN  /\ client' = r.client
             /\ outcome' = r.outcome
             /\ sent' = r.sent
             /\ lastCall' = [op |-> "__init__", path |-> <<>>,
                             args |-> {<<"base_url", base_url>>,
                                       <<"api_key", api_key>>},
                             kwargs |-> {}]
    /\ UNCHANGED <<env, handles, scope, server>>

\* Mutant of Call: a multipart call removes the JSON content type from the
\* session's default headers.
CallEditingSessionHeaders(op, path, args, kwargs, r) ==
    /\ client.state = "open"
    /\ lastCall' = [op |-> op, path |-> path, args |-> args, kwargs |-> kwargs]
    /\ sent' = r.sent
    /\ outcome' = r.outcome
    /\ handles' = handles + OpenHandles(r)
    /\ client' = IF "opened" \in DOMAIN r
                 THEN [client EXCEPT
                         !.headers = {h \in client.headers : h[1] # "Content-Type"}]
                 ELSE client
    /\ UNCHANGED <<env, scope, server>>

\* One call of operation op on the instance, r being what the operation does:
\* no operation assigns to an attribute of the instance or of its session.
Invoke(op, path, args, kwargs, r) ==
    /\ client.state = "open"
    /\ lastCall' = [op |-> op, path |-> path, args |-> args, kwargs |-> kwargs]
    /\ sent' = r.sent
    /\ outcome' = r.outcome
    /\ handles' = handles + OpenHandles(r)
    /\ UNCHANGED <<env, client, scope>>

\* A call answered by any response.
Call(op, path, args, kwargs, r) ==
    /\ Invoke(op, path, args, kwargs, r)
    /\ UNCHANGED server

GetModels ==
    \E resp \in Responses :
        Call("get_models", <<>>, {}, {}, get_models(client, resp))

GetModel ==
    \E model \in ModelNames, resp \in Responses :
        Call("get_model", model, {}, {}, get_model(client, model, resp))

ChatCompletions ==
    \E messages \in Messages, model \in Models, kwargs \in JsonKwargs,
       resp \in Responses :
        Call("chat_completions", <<>>,
             {<<"messages", messages>>, <<"model", model>>}, kwargs,
             chat_completions(client, messages, model, kwargs, resp))

AgentsCompletions ==
    \E messages \in Messages, model \in Models, kwargs \in NoExtra,
       resp \in Responses :
        Call("agents_completions", <<>>,
             {<<"messages", messages>>, <<"model", model>>}, kwargs,
             agents_completions(client, messages, model, kwargs, resp))

GetAgentsTools ==
    \E resp \in Responses :
        Call("get_agents_tools", <<>>, {}, {}, get_agents_tools(client, resp))

CreateEmbeddings ==
    \E input_text \in Names, model \in Models, kwargs \in NoExtra,
       resp \in Responses :
        Call("create_embeddings", <<>>,
             {<<"input_text", input_text>>, <<"model", model>>}, kwargs,
             create_embeddings(client, input_text, model, kwargs, resp))

TranscribeAudio ==
    \E file_path \in Paths, model \in Models, kwargs \in NoExtra,
       resp \in Responses :
        Call("transcribe_audio", file_path, {<<"model", model>>}, kwargs,
             transcribe_audio(client, file_path, model, kwargs, resp))

ParseDocument ==
    \E file_path \in Paths, kwargs \in NoExtra, resp \in Responses :
        Call("parse_document", file_path, {}, kwargs,
             parse_document(client, file_path, kwargs, resp))

OcrDocument ==
    \E file_path \in Paths, model \in Models, kwargs \in NoExtra,
       resp \in Responses :
        Call("ocr_document", file_path, {<<"model", model>>}, kwargs,
             ocr_document(client, file_path, model, kwargs, resp))

CreateCollection ==
    \E name \in Names, description \in Descriptions,
       visibility \in Visibilities, resp \in Responses :
        Call("create_collection", <<>>,
             {<<"name", name>>, <<"description", description>>,
              <<"visibility", visibility>>}, {},
             create_collection(client, name, description, visibility, resp))

GetCollections ==
    \E offset \in Offsets, limit \in Limits, resp \in Responses :
        Call("get_collections", <<>>,
             {<<"offset", offset>>, <<"limit", limit>>}, {},
             get_collections(client, offset, limit, resp))

GetCollection ==
    \E collection_id \in Ids, resp \in Responses :
        Call("get_collection", <<>>, {<<"collection_id", collection_id>>}, {},
             get_collection(client, collection_id, resp))

UpdateCollection ==
    \E collection_id \in Ids, kwargs \in UpdateKwargs, resp \in Responses :
        Call("update_collection", <<>>, {<<"collection_id", collection_id>>},
             kwargs, update_collection(client, collection_id, kwargs, resp))

DeleteCollection ==
    \E collection_id \in Ids, resp \in Responses :
        Call("delete_collection", <<>>, {<<"collection_id", collection_id>>}, {},
             delete_collection(client, collection_id, resp))

CreateDocument ==
    \E file_path \in Paths, collection_id \in Ids, kwargs \in FormKwargs,
       resp \in Responses :
        Call("create_document", file_path,
             {<<"collection_id", collection_id>>}, kwargs,
             create_document(client, file_path, collection_id, kwargs, resp))

GetDocuments ==
    \E collection_id \in OptionalIds, limit \in Limits, offset \in Offsets,
       resp \in Responses :
        Call("get_documents", <<>>,
             {<<"collection_id", collection_id>>, <<"limit", limit>>,
              <<"offset", offset>>}, {},
             get_documents(client, collection_id, limit, offset, resp))

GetDocument ==
    \E document_id \in Ids, resp \in Responses :
        Call("get_document", <<>>, {<<"document_id", document_id>>}, {},
             get_document(client, document_id, resp))

DeleteDocument ==
    \E document_id \in Ids, resp \in Responses :
        Call("delete_document", <<>>, {<<"document_id", document_id>>}, {},
             delete_document(client, document_id, resp))

GetChunks ==
    \E document_id \in Ids, limit \in Limits, offset \in Offsets,
       resp \in Responses :
        Call("get_chunks", <<>>,
             {<<"document_id", document_id>>, <<"limit", limit>>,
              <<"offset", offset>>}, {},
             get_chunks(client, document_id, limit, offset, resp))

GetChunk ==
    \E document_id \in Ids, chunk_id \in Ids, resp \in Responses :
        Call("get_chunk", <<>>,
             {<<"document_id", document_id>>, <<"chunk_id", chunk_id>>}, {},
             get_chunk(client, document_id, chunk_id, resp))

Search ==
    \E prompt \in Names, collections \in CollectionLists, kwargs \in NoExtra,
       resp \in Responses :
        Call("search", <<>>,
             {<<"prompt", prompt>>, <<"collections", collections>>}, kwargs,
             search(client, prompt, collections, kwargs, resp))

Rerank ==
    \E prompt \in Names, input_texts \in Messages, model \in Models,
       resp \in Responses :
        Call("rerank", <<>>,
             {<<"prompt", prompt>>, <<"input_texts", input_texts>>,
              <<"model", model>>}, {},
             rerank(client, prompt, input_texts, model, resp))

GetUsage ==
    \E limit \in Limits, page \in Pages, kwargs \in QueryKwargs,
       resp \in Responses :
        Call("get_usage", <<>>, {<<"limit", limit>>, <<"page", page>>}, kwargs,
             get_usage(client, limit, page, kwargs, resp))

CreateToken ==
    \E name \in Names, user \in Users, expires_at \in Expiries,
       resp \in Responses :
        Call("create_token", <<>>,
             {<<"name", name>>, <<"user", user>>, <<"expires_at", expires_at>>},
             {}, create_token(client, name, user, expires_at, resp))

GetTokens ==
    \E offset \in Offsets, limit \in Limits, kwargs \in QueryKwargs,
       resp \in Responses :
        Call("get_tokens", <<>>, {<<"offset", offset>>, <<"limit", limit>>},
             kwargs, get_tokens(client, offset, limit, kwargs, resp))

GetToken ==
    \E token_id \in Ids, resp \in Responses :
        Call("get_token", <<>>, {<<"token_id", token_id>>}, {},
             get_token(client, token_id, resp))

DeleteToken ==
    \E token_id \in Ids, resp \in Responses :
        Call("delete_token", <<>>, {<<"token_id", token_id>>}, {},
             delete_token(client, token_id, resp))

Next ==
    \/ Construct
    \/ GetModels
    \/ GetModel
    \/ ChatCompletions
    \/ AgentsCompletions
    \/ GetAgentsTools
    \/ CreateEmbeddings
    \/ TranscribeAudio
    \/ ParseDocument
    \/ OcrDocument
    \/ CreateCollection
    \/ GetCollections
    \/ GetCollection
    \/ UpdateCollection
    \/ DeleteCollection
    \/ CreateDocument
    \/ GetDocuments
    \/ GetDocument
    \/ DeleteDocument
    \/ GetChunks
    \/ GetChunk
    \/ Search
    \/ Rerank
    \/ GetUsage
    \/ CreateToken
    \/ GetTokens
    \/ GetToken
    \/ DeleteToken

Spec == Init /\ [][Next]_vars

-----------------------------------------------------------------------------
(* Notions the properties are stated with *)

MultipartOps == {"transcribe_audio", "parse_document", "ocr_document",
                 "create_document"}
PaginatedOps == {"get_collections", "get_documents", "get_chunks", "get_usage",
                 "get_tokens"}

\* The last call dispatched a request; LastReq and LastResp are the request
\* and the transport's answer to it.
Dispatched == sent # <<>>
LastReq == sent[Len(sent)].req
LastResp == sent[Len(sent)].resp

\* A configuration value is empty or absent.
Blank(s) == s = NoneS \/ s = <<>>

\* The last call was a construction that neither argument nor environment
\* gave a base URL, or a credential.
ConstructedWithout(arg, variable) ==
    /\ lastCall.op = "__init__"
    /\ Blank(Get(lastCall.args, arg))
    /\ Blank(env[variable])

\* The last call raised an exception of type exc.
Raised(exc) == outcome.kind = "raise" /\ outcome.exc = exc

-----------------------------------------------------------------------------
(* Properties *)

\* C1: a construction in which the base URL or the credential is empty or
\* absent (in the argument and in the environment) fails with ValueError, the
\* client's configuration error; no session exists and nothing was dispatched.
C1_ConstructionFailsWithoutConfig ==
    (\/ ConstructedWithout("base_url", "ALBERT_API_BASE_URL")
     \/ ConstructedWithout("api_key", "ALBERT_API_KEY"))
    => /\ Raised("ValueError")
       /\ client.state = "none"
       /\ ~Dispatched

\* C1 witness: a construction with an empty base URL argument and no
\* environment variable has failed.
C1_Witness ==
    /\ lastCall.op = "__init__"
    /\ Get(lastCall.args, "base_url") = <<>>
    /\ env["ALBERT_API_BASE_URL"] = NoneS
    /\ Raised("ValueError")
    /\ client.state = "none"

\* C2: a multipart operation called with a path that does not exist fails with
\* FileNotFoundError, the client's resource-not-found error, and the transport
\* saw no dispatch for that call.
C2_MissingFileFailsBeforeDispatch ==
    (lastCall.op \in MultipartOps /\ PathKind(lastCall.path) = "missing")
    => /\ Raised("FileNotFoundError")
       /\ ~Dispatched

\* C2 witness: create_document was called on a missing path and failed.
C2_Witness ==
    /\ lastCall.op = "create_document"
    /\ lastCall.path = MissingFile
    /\ Raised("FileNotFoundError")
    /\ sent = <<>>

\* The last call dispatched a request and the transport returned a response
\* (it did not raise).
Answered == Dispatched /\ LastResp.net = "ok"

\* The response's status is in the success range.
SuccessStatus(status) == status >= 200 /\ status < 300

\* The attributes of the raised exception hold the response's status code and
\* its raw body.
CarriesStatusAndBody ==
    /\ <<"status_code", ToString(LastResp.status)>> \in outcome.attrs
    /\ <<"body", LastResp.body>> \in outcome.attrs

Cause ==
    IF \/ ConstructedWithout("base_url", "ALBERT_API_BASE_URL")
       \/ ConstructedWithout("api_key", "ALBERT_API_KEY")
    THEN "configuration"
    ELSE IF lastCall.op \in MultipartOps /\ PathKind(lastCall.path) = "missing"
    THEN "missing_file"
    ELSE IF Dispatched /\ LastResp.net # "ok"
    THEN "transport"
    ELSE IF Answered /\ ~SuccessStatus(LastResp.status)
    THEN "http_status"
    ELSE IF Answered /\ LastResp.status # 204 /\ LastResp.body = "<html>oops</html>"
    THEN "decode"
    ELSE "none"

\* The cause of the failure Interpret reports for a transport answer.
CauseOfAnswer(resp) ==
    IF resp.net # "ok" THEN "transport"
    ELSE IF ~SuccessStatus(resp.status) THEN "http_status"
    ELSE "decode"

\* <<cause, exception type>> of every failure the client's code produces.
FailureKinds ==
    {<<"configuration",
       AlbertAPIInit(NoneS, NoneS, DefaultTimeout,
                     [ALBERT_API_BASE_URL |-> NoneS,
                      ALBERT_API_KEY |-> NoneS]).outcome.exc>>,
     <<"missing_file",
       Upload(NoClient, MissingFile, "", <<>>, {}, "",
              CHOOSE r \in Responses : TRUE).outcome.exc>>}
    \cup {<<CauseOfAnswer(r), Interpret(r).exc>> :
            r \in {x \in Responses : Interpret(x).kind = "raise"}}

CodeKind(cause) ==
    CASE cause = "configuration" -> "ValueError"
      [] cause = "missing_file" -> "FileNotFoundError"
      [] OTHER -> "RuntimeError"
CodePrefixes(cause) ==
    CASE cause = "configuration" -> {"Base URL is required.", "API key is required."}
      [] cause = "missing_file" ->
            {"Audio file not found: ", "Document file not found: ",
             "PDF file not found: "}
      [] cause = "decode" -> {"Failed to parse JSON response: "}
      [] OTHER -> {"API request failed: "}

DiscardingOps == {"update_collection", "delete_collection", "delete_document",
                  "delete_token"}

\* C5: a response with status 204 makes _make_request return the empty result,
\* whatever the body, and response.json() is not called; an operation that
\* returns _make_request's result returns {}.
C5_NoContentYieldsEmpty ==
    (Answered /\ LastResp.status = 204)
    => /\ outcome.kind = IF lastCall.op \in DiscardingOps
                         THEN "return_none" ELSE "return"
       /\ outcome.value = EmptyDict
       /\ outcome.jsonCalls = 0

\* C5 witness: get_collection was answered 204 with a body that is not JSON
\* and returned {}.
C5_Witness ==
    /\ lastCall.op = "get_collection"
    /\ Answered
    /\ LastResp.status = 204
    /\ LastResp.body = "<html>oops</html>"
    /\ outcome.kind = "return"
    /\ outcome.value = EmptyDict

\* C6: a response with a success status other than 204 whose body is not valid
\* JSON makes the call raise RuntimeError "Failed to parse JSON response: ",
\* the client's decode error: no other exception escapes and nothing is
\* returned.
C6_InvalidJsonRaisesDecodeError ==
    (/\ Answered
     /\ SuccessStatus(LastResp.status)
     /\ LastResp.status # 204
     /\ LastResp.body = "<html>oops</html>")
    => /\ Raised("RuntimeError")
       /\ outcome.msg = "Failed to parse JSON response: "
       /\ outcome.value = EmptyDict

\* C6 witness: get_models was answered 200 with an HTML body and raised the
\* decode error.
C6_Witness ==
    /\ lastCall.op = "get_models"
    /\ Answered
    /\ LastResp.status = 200
    /\ LastResp.body = "<html>oops</html>"
    /\ Raised("RuntimeError")
    /\ outcome.msg = "Failed to parse JSON response: "

\* The pagination arguments of the last call.
PageArgs == {p \in lastCall.args : p[1] \in {"offset", "limit", "page"}}

\* C7: a call dispatches at most one request, whether it succeeds or fails; a
\* paginated operation dispatches exactly one, whose query parameters hold the
\* caller's offset/limit/page.
C7_SingleDispatch ==
    /\ Len(sent) <= 1
    /\ lastCall.op \in PaginatedOps
       => /\ Len(sent) = 1
          /\ PageArgs # {}
          /\ PageArgs \subseteq LastReq.params

\* C7 witness: get_collections(offset=20, limit=5) met a connection failure
\* after one dispatch.
C7_Witness ==
    /\ lastCall.op = "get_collections"
    /\ Len(sent) = 1
    /\ LastResp.net = "connect"
    /\ outcome.kind = "raise"
    /\ LastReq.params = {<<"offset", "20">>, <<"limit", "5">>}

\* The optional query parameters of the last call that were omitted or passed
\* as None, by the key they have in the query.
OmittedQueryKeys ==
    IF lastCall.op = "get_documents"
    THEN IF Get(lastCall.args, "collection_id") = None THEN {"collection"} ELSE {}
    ELSE IF lastCall.op \in {"get_usage", "get_tokens"}
    THEN {"order_by"} \ {p[1] : p \in {q \in lastCall.kwargs : q[2] # None}}
    ELSE {}

\* C8: an optional query parameter that is omitted or passed as None is not a
\* key of the query parameters handed to the transport.
C8_OmittedQueryParamsAbsent ==
    Dispatched => OmittedQueryKeys \cap Keys(LastReq.params) = {}

\* C9: in JSON mode no key of the body handed to the transport has the value
\* None.
C9_NoNoneInJsonBody ==
    (Dispatched /\ "json" \in LastReq.given)
    => \A p \in LastReq.json : p[2] # None

\* C10: a dispatched request has the header Authorization: Bearer <credential>,
\* and Content-Type: application/json exactly when it is not multipart.
C10_AuthAndContentType ==
    Dispatched
    => /\ <<"Authorization", <<"Bearer ">> \o client.api_key>> \in LastReq.headers
       /\ (<<"Content-Type", <<"application/json">>>> \in LastReq.headers)
          <=> ("files" \notin LastReq.given)

\* The form fields a multipart operation is to send: the caller's extra
\* fields, the model of transcribe_audio and ocr_document, the collection of
\* create_document.
ExpectedFormFields ==
    lastCall.kwargs
    \cup {<<"model", p[2]>> : p \in {q \in lastCall.args : q[1] = "model"}}
    \cup {<<"collection", p[2]>> :
            p \in {q \in lastCall.args : q[1] = "collection_id"}}

\* C11: a request never has a JSON body and a file part together; the four
\* file-carrying operations dispatch one file part named "file" with the
\* caller's scalar fields as form fields and no JSON body; no other operation
\* dispatches a file part or form fields.
C11_BodyModesExclusive ==
    Dispatched
    => /\ ~({"json", "files"} \subseteq LastReq.given)
       /\ IF lastCall.op \in MultipartOps
          THEN /\ LastReq.given = {"data", "files"}
               /\ Cardinality(LastReq.files) = 1
               /\ \A f \in LastReq.files :
                    f[1] = "file" /\ f[2] = lastCall.path[Len(lastCall.path)]
               /\ LastReq.data = ExpectedFormFields
               /\ LastReq.json = {}
          ELSE /\ "files" \notin LastReq.given
               /\ "data" \notin LastReq.given
               /\ LastReq.files = {}

\* C11 witness: create_document(path, 7, chunk_size=500) dispatched the file
\* with the form fields collection=7 and chunk_size=500.
C11_Witness ==
    /\ lastCall.op = "create_document"
    /\ Dispatched
    /\ LastReq.data = {<<"collection", "7">>, <<"chunk_size", "500">>}
    /\ LastReq.files = {<<"file", "report.pdf", "application/pdf">>}
    /\ "json" \notin LastReq.given

\* C12: chat_completions dispatches exactly one POST to /v1/chat/completions
\* whose only body is JSON with the caller's messages and model and every extra
\* keyword argument at the top level, and no other key.
C12_ChatCompletionsBody ==
    lastCall.op = "chat_completions"
    => /\ Len(sent) = 1
       /\ LastReq.method = "POST"
       /\ LastReq.url = Rstrip(client.base_url)
                        \o <<"/", "v1", "/", "chat", "/", "completions">>
       /\ LastReq.given = {"json"}
       /\ LastReq.json = lastCall.args \cup lastCall.kwargs
       /\ Keys(lastCall.args) = {"messages", "model"}

\* C12 witness: chat_completions(messages, "model-x", max_completion_tokens=100)
\* was dispatched with the three keys.
C12_Witness ==
    /\ lastCall.op = "chat_completions"
    /\ Len(sent) = 1
    /\ LastReq.json = {<<"messages", "[{role: user, content: hi}]">>,
                       <<"model", "model-x">>,
                       <<"max_completion_tokens", "100">>}

\* C17: after a call, returned or raised, no file handle opened by it is open,
\* so none is kept from one call to the next.
C17_NoHandleLeftOpen == handles = 0

\* C17 witness: a multipart call opened the file, dispatched it, met a
\* connection failure and left no handle open.
C17_Witness ==
    /\ lastCall.op = "transcribe_audio"
    /\ Dispatched
    /\ LastReq.files # {}
    /\ LastResp.net = "connect"
    /\ outcome.kind = "raise"
    /\ handles = 0

\* C20: once the instance is constructed no call, returning or raising, changes
\* its base URL, credential, timeout or the session's default headers.
C20_ConfigurationNeverChanges ==
    [][client.state = "open"
       => /\ client'.base_url = client.base_url
          /\ client'.api_key = client.api_key
          /\ client'.timeout = client.timeout
          /\ client'.headers = client.headers]_vars

\* C20 witness: after a multipart call that failed the instance holds what
\* __init__ gave it.
C20_Witness ==
    /\ lastCall.op = "create_document"
    /\ Dispatched
    /\ outcome.kind = "raise"
    /\ client.state = "open"
    /\ client.base_url = <<"https://albert.example", "/">>
    /\ client.api_key = <<"arg-key">>
    /\ client.timeout = DefaultTimeout
    /\ client.headers = {<<"Authorization", <<"Bearer ", "arg-key">>>>,
                         <<"Content-Type", <<"application/json">>>>}

\* ---------------------------------------------------------------------------
\* The collection lifecycle against a service that answers from the
\* collections it holds: create, read and delete as test_collections does.

\* The JSON the service writes for a collection.
CollectionBody(id, name) ==
    CASE id = "42" /\ name = "demo" -> "{\"id\": 42, \"name\": \"demo\"}"
      [] id = "42" /\ name = "notes" -> "{\"id\": 42, \"name\": \"notes\"}"
      [] id = "43" /\ name = "demo" -> "{\"id\": 43, \"name\": \"demo\"}"
      [] id = "43" /\ name = "notes" -> "{\"id\": 43, \"name\": \"notes\"}"

Answered200(body) == [net |-> "ok", status |-> 200, body |-> body]
NotFound == [net |-> "ok", status |-> 404, body |-> "{\"detail\": \"Not found\"}"]

\* The service's answer to a request for path, and the collections it holds
\* afterwards: POST /v1/collections stores the name under the first free id,
\* GET /v1/collections/{id} reads it, DELETE /v1/collections/{id} removes it.
Answer(names, method, path, body) ==
    LET free == {i \in DOMAIN ServerIds : names[ServerIds[i]] = None}
        first == ServerIds[CHOOSE i \in free : \A j \in free : i <= j]
        id == path[Len(path)]
        held == /\ Len(path) = 6
                /\ SubSeq(path, 1, 5) = <<"/", "v1", "/", "collections", "/">>
                /\ id \in DOMAIN names
                /\ names[id] # None
    IN  IF method = "POST" /\ path = <<"/", "v1", "/", "collections">>
        THEN IF free = {}
             THEN [resp |-> [net |-> "ok", status |-> 507,
                             body |-> "{\"detail\": \"Full\"}"],
                   names |-> names]
             ELSE [resp |-> [net |-> "ok", status |-> 201,
                             body |-> CollectionBody(first, Get(body, "name"))],
                   names |-> [names EXCEPT ![first] = Get(body, "name")]]
        ELSE IF method = "GET" /\ held
        THEN [resp |-> Answered200(CollectionBody(id, names[id])), names |-> names]
        ELSE IF method = "DELETE" /\ held
        THEN [resp |-> [net |-> "ok", status |-> 204, body |-> ""],
              names |-> [names EXCEPT ![id] = None]]
        ELSE [resp |-> NotFound, names |-> names]

\* The request an operation dispatches, which no response has a part in.
RequestOf(r) == r.sent[1].req

\* The service's answer to the request req of instance c.
Serve(c, names, req) ==
    LET path == SubSeq(req.url, Len(Rstrip(c.base_url)) + 1, Len(req.url))
    IN  Answer(names, req.method, path, req.json)

\* A call the service has answered, r being what the operation does with the
\* answer and names the collections the service holds afterwards.
ServedCall(op, args, r, names) ==
    /\ Invoke(op, <<>>, args, {}, r)
    /\ server' = [names |-> names,
                  before |-> [call |-> lastCall, outcome |-> outcome,
                              sent |-> sent, names |-> server.names]]

CreateCollectionServed ==
    \E name \in CollectionNames :
        LET a == Serve(client, server.names,
                       RequestOf(create_collection(client, name, None, "private",
                                                   NotFound)))
        IN  ServedCall("create_collection",
                       {<<"name", name>>, <<"description", None>>,
                        <<"visibility", "private">>},
                       create_collection(client, name, None, "private", a.resp),
                       a.names)

GetCollectionServed ==
    \E collection_id \in DOMAIN server.names :
        LET a == Serve(client, server.names,
                       RequestOf(get_collection(client, collection_id, NotFound)))
        IN  ServedCall("get_collection", {<<"collection_id", collection_id>>},
                       get_collection(client, collection_id, a.resp), a.names)

DeleteCollectionServed ==
    \E collection_id \in DOMAIN server.names :
        LET a == Serve(client, server.names,
                       RequestOf(delete_collection(client, collection_id, NotFound)))
        IN  ServedCall("delete_collection", {<<"collection_id", collection_id>>},
                       delete_collection(client, collection_id, a.resp), a.names)

NextServer ==
    \/ Construct
    \/ CreateCollectionServed
    \/ GetCollectionServed
    \/ DeleteCollectionServed

SpecServer == Init /\ [][NextServer]_vars

\* The call before the last one, with its outcome.
Before == server.before

\* get_collection(id) was called right after create_collection returned id.
ReadAfterCreate ==
    /\ Before.call.op = "create_collection"
    /\ Before.outcome.kind = "return"
    /\ lastCall.op = "get_collection"
    /\ Get(lastCall.args, "collection_id") = Get(Before.outcome.value, "id")

\* get_collection(id) was called right after delete_collection(id) succeeded.
ReadAfterDelete ==
    /\ Before.call.op = "delete_collection"
    /\ Before.outcome.kind = "return_none"
    /\ lastCall.op = "get_collection"
    /\ lastCall.args = Before.call.args

RepeatedRead ==
    /\ lastCall.op = "get_collection"
    /\ Before.call = lastCall
    /\ Before.names = server.names

close(c) == [client |-> [c EXCEPT !.state = "closed"], closes |-> 1]

\* __enter__ returns self.
Enter(c) == c

\* Mutant of Exit: the session is closed when the block ended without exception.
ExitClosingOnSuccess(c, exc) ==
    IF exc = ""
    THEN [client |-> close(c).client, closes |-> close(c).closes, returned |-> None]
    ELSE [client |-> c, closes |-> 0, returned |-> None]

\* __exit__(exc_type, exc_val, exc_tb): self.close(), and None is returned.
Exit(c, exc) ==
    LET r == close(c)
    IN  [client |-> r.client, closes |-> r.closes, returned |-> None]

\* `with` re-raises the block's exception unless __exit__ returned a true value.
Reraised(exc, returned) == IF returned \in {None, "False"} THEN exc ELSE ""

EnterBlock ==
    /\ client.state = "open"
    /\ scope.phase = "out"
    /\ client' = Enter(client)
    /\ scope' = [scope EXCEPT !.phase = "in"]
    /\ UNCHANGED <<env, lastCall, sent, outcome, handles, server>>

\* A statement of the block; an exception of an earlier statement ends the block.
InBlock(A) == scope.phase = "in" /\ outcome.kind # "raise" /\ A

\* The block is left, by its end or by the exception of its last call.
ExitBlock ==
    /\ scope.phase = "in"
    /\ LET exc == IF outcome.kind = "raise" THEN outcome.exc ELSE ""
           r == Exit(client, exc)
       IN  /\ client' = r.client
           /\ scope' = [phase |-> "left", closes |-> scope.closes + r.closes,
                        raised |-> exc,
                        propagated |-> Reraised(exc, r.returned)]
    /\ UNCHANGED <<env, lastCall, sent, outcome, handles, server>>

NextScope ==
    \/ Construct
    \/ EnterBlock
    \/ InBlock(GetModels)
    \/ InBlock(DeleteCollection)
    \/ ExitBlock

SpecScope == Init /\ [][NextScope]_vars

\* C15: once the `with` block is left, by its end or by an exception, the
\* session is closed, close() was called on it once, and the exception that
\* left the block, if any, reached the caller.
C15_ScopeReleasesSession ==
    scope.phase = "left"
        => /\ client.state = "closed"
           /\ scope.closes = 1
           /\ scope.propagated = (IF outcome.kind = "raise" THEN outcome.exc ELSE "")

\* C15 witness: the block was left by the RuntimeError of get_models; the
\* session is closed and the error reached the caller.
C15_Witness ==
    /\ scope.phase = "left"
    /\ lastCall.op = "get_models"
    /\ outcome.kind = "raise"
    /\ scope.raised = "RuntimeError"
    /\ scope.propagated = "RuntimeError"
    /\ scope.closes = 1
    /\ client.state = "closed"

\* ---------------------------------------------------------------------------
\* The model listing: get_models_ids on every listing response.
GetModelsIds ==
    \E resp \in ListingResponses :
        Call("get_models_ids", <<>>, {}, {}, get_models_ids(client, resp))

NextModels == Construct \/ GetModelsIds

SpecModels == Init /\ [][NextModels]_vars

\* The ids the listing of the last response holds, in order; none when the
\* call failed or the listing is malformed.
ListedIds ==
    IF /\ LastResp.net = "ok"
       /\ LastResp.status \in {200, 201}
       /\ LastResp.body = "{\"data\": [{\"id\": \"model-a\"}, {\"id\": \"model-b\"}]}"
    THEN <<"model-a", "model-b">>
    ELSE <<>>

\* C16: get_models_ids never raises: it returns the ids of the listing's data
\* in order, and the empty list when get_models failed or the listing is
\* malformed.
C16_ModelsIdsNeverRaises ==
    lastCall.op = "get_models_ids"
        => /\ outcome.kind = "return"
           /\ Len(sent) = 1
           /\ outcome.value = ListedIds

\* C16 witness: a listing whose second entry has no "id" gave the empty list.
C16_Witness ==
    /\ lastCall.op = "get_models_ids"
    /\ LastResp.net = "ok"
    /\ LastResp.status = 200
    /\ LastResp.body = "{\"data\": [{\"id\": \"model-a\"}, {\"name\": \"model-b\"}]}"
    /\ outcome.kind = "return"
    /\ outcome.value = <<>>

\* ---------------------------------------------------------------------------
\* URL composition: _make_request on every base URL and endpoint, each with up
\* to MaxSlashes slashes at the joint.
MaxSlashes == 2

Slashes(n) == [k \in 1..n |-> "/"]

Hosts == {<<"https://albert.example">>, <<"https://albert.example", "/", "api">>}

EndpointPaths == {<<>>, <<"health">>, <<"v1", "/", "models">>}

\* AlbertAPI(base_url=..., api_key="arg-key")
ConstructAt ==
    /\ client.state = "none"
    /\ \E host \in Hosts, i \in 0..MaxSlashes :
         LET base_url == host \o Slashes(i)
             r == AlbertAPIInit(base_url, <<"arg-key">>, DefaultTimeout, env)
         IN  /\ client' = r.client
             /\ outcome' = r.outcome
             /\ sent' = r.sent
             /\ lastCall' = [op |-> "__init__", path |-> <<>>,
                             args |-> {<<"base_url", base_url>>,
                                       <<"api_key", <<"arg-key">>>>},
                             kwargs |-> {}]
    /\ UNCHANGED <<env, handles, scope, server>>

\* self._make_request("GET", endpoint)
MakeRequestAt ==
    \E path \in EndpointPaths, j \in 0..MaxSlashes, resp \in Responses :
        LET endpoint == Slashes(j) \o path
        IN  Call("_make_request", endpoint, {<<"method", "GET">>}, {},
                 MakeRequest(client, "GET", endpoint, NoKwargs, resp))

NextUrl == ConstructAt \/ MakeRequestAt

SpecUrl == Init /\ [][NextUrl]_vars

\* s without the slashes at its end, and without those at its start.
WithoutTrailing(s) ==
    LET n == CHOOSE k \in 0..Len(s) :
                 /\ \A i \in (k + 1)..Len(s) : s[i] = "/"
                 /\ k > 0 => s[k] # "/"
    IN  SubSeq(s, 1, n)

WithoutLeading(s) ==
    LET n == CHOOSE k \in 1..(Len(s) + 1) :
                 /\ \A i \in 1..(k - 1) : s[i] = "/"
                 /\ k <= Len(s) => s[k] # "/"
    IN  SubSeq(s, n, Len(s))

\* C19: the URL _make_request dispatches to is the base URL without its
\* trailing slashes, one '/', and the endpoint without its leading slashes,
\* however many slashes either side has at the joint.
C19_OneSlashAtTheJoint ==
    lastCall.op = "_make_request"
        => /\ Len(sent) = 1
           /\ LastReq.url = WithoutTrailing(client.base_url) \o <<"/">>
                               \o WithoutLeading(lastCall.path)

\* C19 witness: a base URL ending with two slashes and an endpoint starting
\* with two are joined by one.
C19_Witness ==
    /\ lastCall.op = "_make_request"
    /\ client.base_url = <<"https://albert.example", "/", "api", "/", "/">>
    /\ lastCall.path = <<"/", "/", "v1", "/", "models">>
    /\ Dispatched
    /\ LastReq.url = <<"https://albert.example", "/", "api", "/", "v1", "/", "models">>

\* ---------------------------------------------------------------------------
\* The part of the last request's URL that follows the base URL.
RequestPath ==
    SubSeq(LastReq.url, Len(Rstrip(client.base_url)) + 1, Len(LastReq.url))

\* The number of path separators of a path.
Separators(path) == Cardinality({i \in DOMAIN path : path[i] = "/"})

\* C18: the model name given to get_model occupies one segment of the path:
\* the URL's path has the three segments of /v1/models/{model} and none of the
\* name's characters '/', '?' or '#' is left to delimit a segment, a query or a
\* fragment.
C18_PathParameterIsOneSegment ==
    lastCall.op = "get_model" /\ Dispatched
        => /\ Separators(RequestPath) = 3
           /\ \A i \in DOMAIN RequestPath : RequestPath[i] \notin {"?", "#"}

\* The value a construction is to use for a setting: the argument when it is
\* given and not empty, the environment variable otherwise.
Configured(arg, variable) ==
    IF Blank(Get(lastCall.args, arg)) THEN env[variable]
    ELSE Get(lastCall.args, arg)

\* C21: a construction uses a non-empty base_url or api_key argument whatever
\* the environment holds, and the environment variable only when the argument
\* is absent or empty; it succeeds whenever each setting has a non-empty value
\* from one of the two sources.
C21_ArgumentBeforeEnvironment ==
    lastCall.op = "__init__"
        => /\ outcome.kind = "return"
              => /\ client.state = "open"
                 /\ client.base_url = Configured("base_url", "ALBERT_API_BASE_URL")
                 /\ client.api_key = Configured("api_key", "ALBERT_API_KEY")
                 /\ <<"Authorization",
                      <<"Bearer ">> \o Configured("api_key", "ALBERT_API_KEY")>>
                        \in client.headers
           /\ (/\ ~Blank(Configured("base_url", "ALBERT_API_BASE_URL"))
               /\ ~Blank(Configured("api_key", "ALBERT_API_KEY")))
              => outcome.kind = "return"

\* C21 witness: with both variables set, a construction with a base URL
\* argument and an empty credential argument succeeded with the argument's
\* base URL and the environment's credential.
C21_Witness ==
    /\ lastCall.op = "__init__"
    /\ env["ALBERT_API_BASE_URL"] = <<"https://env.example">>
    /\ env["ALBERT_API_KEY"] = <<"env-key">>
    /\ Get(lastCall.args, "base_url") = <<"https://albert.example", "/">>
    /\ Get(lastCall.args, "api_key") = <<>>
    /\ outcome.kind = "return"
    /\ client.base_url = <<"https://albert.example", "/">>
    /\ client.api_key = <<"env-key">>

====
